---- MODULE Spec2Model ----
(***************************************************************************)
(* PyProf parse driver (pyprof/parse/parse.py, main): the correlation      *)
(* engine that folds over the kernel launches of a trace, and the marker   *)
(* reconciler that emits a zero-duration record for every marker no kernel *)
(* consumed.  Python lists are sequences (index 1 is Python's index 0).    *)
(***************************************************************************)
EXTENDS Integers, Sequences, FiniteSets, TLC

\* ---------------------------------------------------------------- bounds
MaxKernels == 3   \* most kernel launches the adapter lists
MaxLen == 3       \* longest seqId a marker stack supplies
MaxAltLen == 2    \* longest altSeqId a marker stack supplies
MaxId == 2        \* largest sequence id
NumMarkers == 2   \* marker ids known to the trace
MaxEnc == 2       \* most encapsulating markers of one marker
MaxTime == 1      \* latest marker timestamp

SeqIdValues == 0..MaxId
MarkerIds == 1..NumMarkers
Dirs == {"fprop", "bprop", "none"}
Ops == {<<"forward">>, <<"linear">>}
Mods == {<<"LSTMCell">>, <<"Linear">>}
Tids == {7, 8}
NoStack == "nostack"
FuncStacks == {"fA", "fB"}

\* all sequences over S of length at most n
SeqsUpTo(S, n) == UNION {[1..m -> S] : m \in 0..n}

\* ------------------------------------------------------- list primitives
ToSet(s) == {s[n] : n \in 1..Len(s)}

\* Python "x in s"
In(x, s) == \E n \in 1..Len(s) : s[n] = x

\* Python list.remove(x): drops the first occurrence of x
ListRemove(s, x) ==
    IF ~In(x, s) THEN s
    ELSE LET p == CHOOSE n \in 1..Len(s) : s[n] = x /\ \A m \in 1..(n-1) : s[m] # x
         IN  SubSeq(s, 1, p - 1) \o SubSeq(s, p + 1, Len(s))

\* Python sorted list of a set of integers (list(set(..)) followed by sort())
RECURSIVE SortedList(_)
SortedList(S) ==
    IF S = {} THEN <<>>
    ELSE LET lo == CHOOSE x \in S : \A y \in S : x <= y
         IN  <<lo>> \o SortedList(S \ {lo})

\* ------------------------------------------------- correlation engine steps
\* parse.py 94-96: zero pruning
ZeroPrune(seqId) ==
    IF (\E n \in 1..Len(seqId) : seqId[n] # 0) /\ In(0, seqId)
    THEN ListRemove(seqId, 0)
    ELSE seqId

\* variant of SelectCurrSeqId: a stalled forward kernel takes seqId[-1]
SelectCurrSeqId_LastOnStall(dir, seqId, prev) ==
    IF dir = "fprop"
    THEN LET inc == seqId[Len(seqId)] > prev
         IN  IF inc
             THEN seqId[CHOOSE n \in 1..Len(seqId) :
                          seqId[n] > prev /\ \A m \in 1..(n-1) : ~(seqId[m] > prev)]
             ELSE seqId[Len(seqId)]
    ELSE seqId[1]

\* variant of SelectCurrSeqId: a backward kernel takes seqId[-1]
SelectCurrSeqId_BackwardLast(dir, seqId, prev) ==
    IF dir = "fprop"
    THEN LET inc == seqId[Len(seqId)] > prev
         IN  IF inc
             THEN seqId[CHOOSE n \in 1..Len(seqId) :
                          seqId[n] > prev /\ \A m \in 1..(n-1) : ~(seqId[m] > prev)]
             ELSE prev
    ELSE seqId[Len(seqId)]

\* parse.py 114-122: the canonical id of a kernel with a non-empty seqId
SelectCurrSeqId(dir, seqId, prev) ==
    IF dir = "fprop"
    THEN LET inc == seqId[Len(seqId)] > prev
         IN  IF inc
             THEN seqId[CHOOSE n \in 1..Len(seqId) :
                          seqId[n] > prev /\ \A m \in 1..(n-1) : ~(seqId[m] > prev)]
             ELSE prev
    ELSE seqId[1]

RnnCells == {"LSTMCell", "GRUCell", "RNNCell"}

\* variant of SubSeqCond: the first test forgets to compare the op
SubSeqCond_NoOpCheck(curr, op, mod, prev, pOp) ==
    \/ (curr = prev)
    \/ (op[1] = "forward" /\ op = pOp /\ mod[1] \in RnnCells)

\* parse.py 125-128: the condition under which subSeqId is incremented
SubSeqCond(curr, op, mod, prev, pOp) ==
    \/ (curr = prev /\ op = pOp)
    \/ (op[1] = "forward" /\ op = pOp /\ mod[1] \in RnnCells)

\* variant of AssignSubSeqId: without the condition the previous value stays
AssignSubSeqId_KeepPrev(dflt, curr, op, mod, prev, pSub, pOp) ==
    IF SubSeqCond(curr, op, mod, prev, pOp) THEN pSub + 1 ELSE pSub

\* parse.py 125-128: subSeqId of the kernel (dflt is the constructor's value)
AssignSubSeqId(dflt, curr, op, mod, prev, pSub, pOp) ==
    IF SubSeqCond(curr, op, mod, prev, pOp) THEN pSub + 1 ELSE dflt

\* variant of MoveToAlt: the removed id is not appended to altSeqId
RECURSIVE MoveToAlt_NoAppend(_, _, _, _)
MoveToAlt_NoAppend(seqId, altSeqId, idx, curr) ==
    IF idx > Len(seqId) THEN <<seqId, altSeqId>>
    ELSE LET s == seqId[idx]
         IN  IF s # curr
             THEN MoveToAlt_NoAppend(ListRemove(seqId, s), altSeqId, idx + 1, curr)
             ELSE MoveToAlt_NoAppend(seqId, altSeqId, idx + 1, curr)

\* parse.py 135-138: "for s in k.seqId" with removal from the list iterated;
\* idx is the iterator's position, the result is <<seqId, altSeqId>>
RECURSIVE MoveToAlt(_, _, _, _)
MoveToAlt(seqId, altSeqId, idx, curr) ==
    IF idx > Len(seqId) THEN <<seqId, altSeqId>>
    ELSE LET s == seqId[idx]
         IN  IF s # curr
             THEN MoveToAlt(ListRemove(seqId, s), Append(altSeqId, s), idx + 1, curr)
             ELSE MoveToAlt(seqId, altSeqId, idx + 1, curr)

\* parse.py 140-142: "for s in k.altSeqId" with removal from the list iterated
RECURSIVE DropCurr(_, _, _)
DropCurr(altSeqId, idx, curr) ==
    IF idx > Len(altSeqId) THEN altSeqId
    ELSE IF altSeqId[idx] = curr
         THEN DropCurr(ListRemove(altSeqId, curr), idx + 1, curr)
         ELSE DropCurr(altSeqId, idx + 1, curr)

\* parse.py 144-146: deduplicate and sort
DedupSort(altSeqId) == SortedList(ToSet(altSeqId))

\* parse.py 134-146: <<seqId, altSeqId>> of the record
Partition(seqId, altSeqId, curr) ==
    LET moved == MoveToAlt(seqId, altSeqId, 1, curr)
    IN  <<moved[1], DedupSort(DropCurr(moved[2], 1, curr))>>

\* ------------------------------------------------------------------ state
VARIABLES
    pc,            \* position in main
    nKernels,      \* len(kInfo)
    i,             \* kernels processed so far
    prevSeqId, prevSubSeqId, prevOp,   \* the fold state
    markers,       \* the marker pool: ids in the adapter's order
    k,             \* the Kernel object last printed
    currSeqId,     \* canonical id of the kernel last processed
    marker_item,   \* payload of the marker last reconciled
    encapsulating_markers, \* answer to the last getEncapsulatingMarkers
    raw,           \* history: marker info as the adapter supplied it
    old,           \* history: fold state before the kernel last processed
    allMarkers,    \* history: ids getAllMarkers returned
    callids,       \* history: every id in some kernel's callid
    out            \* history: the records printed, <<kind, id>>

vars == <<pc, nKernels, i, prevSeqId, prevSubSeqId, prevOp, markers, k,
          currSeqId, marker_item, encapsulating_markers, raw, old,
          allMarkers, callids, out>>

\* the string "na" prevOp starts as: equal to no token list
na == <<"na">>
NoSeqId == -1
NoItem == [globalTid |-> 0, start |-> 0, end |-> 0]
NoRaw == [seqId |-> <<>>, altSeqId |-> <<>>]
NoFold == [prevSeqId |-> NoSeqId, prevSubSeqId |-> -1, prevOp |-> na]

\* Kernel(): a record with every field at its default
NewKernel ==
    [kind |-> "new", seqId |-> <<>>, altSeqId |-> <<>>, subSeqId |-> 0,
     dir |-> "none", op |-> <<>>, mod |-> <<>>, callid |-> {},
     funcStack |-> NoStack, kernelName |-> "", kDuration |-> 0, pid |-> 0,
     tid |-> 0, objId |-> 0, rStartTime |-> 0, rEndTime |-> 0]

\* getKernelInfo row n as setKernelInfo stores it
KernelInfo(n) ==
    [kernelName |-> "gpu_kernel", kDuration |-> 1, pid |-> 1, tid |-> 1,
     objId |-> 1, rStartTime |-> n, rEndTime |-> n + 1]

Init ==
    /\ pc = "start"
    /\ nKernels \in 0..MaxKernels
    /\ i = 0
    /\ prevSeqId = NoSeqId
    /\ prevSubSeqId = -1
    /\ prevOp = na
    /\ markers = <<>>
    /\ k = NewKernel
    /\ currSeqId = NoSeqId
    /\ marker_item = NoItem
    /\ encapsulating_markers = <<>>
    /\ raw = NoRaw
    /\ old = NoFold
    /\ allMarkers = {}
    /\ callids = {}
    /\ out = <<>>

\* variant of ExitEmpty: sys.exit is missing and main goes on to the markers
ExitEmpty_FallThrough ==
    /\ pc = "start"
    /\ nKernels = 0
    /\ markers' = SortedList(MarkerIds)
    /\ allMarkers' = MarkerIds
    /\ pc' = "reconcile"
    /\ UNCHANGED <<nKernels, i, prevSeqId, prevSubSeqId, prevOp, k,
                   currSeqId, marker_item, encapsulating_markers, raw, old,
                   callids, out>>

\* parse.py 60-64: no kernels, exit(0)
ExitEmpty ==
    /\ pc = "start"
    /\ nKernels = 0
    /\ pc' = "exit0"
    /\ UNCHANGED <<nKernels, i, prevSeqId, prevSubSeqId, prevOp, markers, k,
                   currSeqId, marker_item, encapsulating_markers, raw, old,
                   allMarkers, callids, out>>

\* parse.py 65-78: fetch the markers, reset the fold state
Start ==
    /\ pc = "start"
    /\ nKernels > 0
    /\ markers' = SortedList(MarkerIds)
    /\ allMarkers' = MarkerIds
    /\ prevSeqId' = -1
    /\ prevSubSeqId' = -1
    /\ prevOp' = na
    /\ pc' = "loop"
    /\ UNCHANGED <<nKernels, i, k, currSeqId, marker_item,
                   encapsulating_markers, raw, old, callids, out>>

\* parse.py 81-104: the Kernel built from the adapter's answers; seqId is
\* the zero-pruned list
BuildKernel(n, seqId, altSeqId, dir, op, mod, callid) ==
    [kind |-> "real", seqId |-> seqId, altSeqId |-> altSeqId, subSeqId |-> 0,
     dir |-> dir, op |-> op, mod |-> mod, callid |-> callid,
     funcStack |-> NoStack, kernelName |-> KernelInfo(n).kernelName,
     kDuration |-> KernelInfo(n).kDuration, pid |-> KernelInfo(n).pid,
     tid |-> KernelInfo(n).tid, objId |-> KernelInfo(n).objId,
     rStartTime |-> KernelInfo(n).rStartTime,
     rEndTime |-> KernelInfo(n).rEndTime]

\* variant of AssertionFails: the assertion is missing
AssertionFails_Off(seqId, dir) == FALSE

\* parse.py 112-113: the assertion on dir fails
AssertionFails(seqId, dir) ==
    Len(seqId) > 0 /\ dir \notin {"fprop", "bprop"}

\* variant of FoldAfter: prevSubSeqId is not updated
FoldAfter_KeepSub(seqId, curr, sub, op, pSeq, pSub, pOp) ==
    IF Len(seqId) > 0 THEN <<curr, pSub, op>> ELSE <<pSeq, pSub, pOp>>

\* parse.py 112, 130-132: <<prevSeqId, prevSubSeqId, prevOp>> after a kernel
\* whose zero-pruned seqId is seqId
FoldAfter(seqId, curr, sub, op, pSeq, pSub, pOp) ==
    IF Len(seqId) > 0 THEN <<curr, sub, op>> ELSE <<pSeq, pSub, pOp>>

\* variant of Emit: the record is put before those already printed
Emit_Front(log, kind, id) == <<(<<kind, id>>)>> \o log

\* parse.py 148, 187: k.print() adds a record to the output
Emit(log, kind, id) == Append(log, <<kind, id>>)

\* parse.py 80-148: one kernel is built, correlated and printed
\* (\E x \in {e} binds x to the value of e)
ProcessKernel ==
    /\ pc = "loop"
    /\ i < nKernels
    /\ \E seqId \in SeqsUpTo(SeqIdValues, MaxLen), dir \in Dirs :
       \E pruned \in {ZeroPrune(seqId)} :
         IF AssertionFails(pruned, dir)
         THEN \* main stops at line 113; the kernel built is not printed
              /\ pc' = "aborted"
              /\ k' = [NewKernel EXCEPT !.kind = "built", !.seqId = pruned,
                                        !.dir = dir]
              /\ raw' = [seqId |-> seqId, altSeqId |-> <<>>]
              /\ UNCHANGED <<prevSeqId, prevSubSeqId, prevOp, currSeqId,
                             old, out>>
         ELSE \E curr \in {IF Len(pruned) > 0
                           THEN SelectCurrSeqId(dir, pruned, prevSeqId)
                           ELSE currSeqId} :
              \E altSeqId \in SeqsUpTo(SeqIdValues, MaxAltLen) :
              \E parts \in {IF Len(pruned) > 0
                            THEN Partition(pruned, altSeqId, curr)
                            ELSE <<pruned, altSeqId>>} :
              \E op \in Ops, mod \in Mods, callid \in SUBSET MarkerIds :
              \E kn \in {BuildKernel(i, parts[1], parts[2], dir, op, mod,
                                     callid)} :
              \E sub \in {IF Len(pruned) > 0
                          THEN AssignSubSeqId(kn.subSeqId, curr, op, mod,
                                   prevSeqId, prevSubSeqId, prevOp)
                          ELSE kn.subSeqId} :
              \E fold \in {FoldAfter(pruned, curr, sub, op, prevSeqId,
                                     prevSubSeqId, prevOp)} :
                /\ raw' = [seqId |-> seqId, altSeqId |-> altSeqId]
                /\ old' = [prevSeqId |-> prevSeqId,
                           prevSubSeqId |-> prevSubSeqId, prevOp |-> prevOp]
                /\ currSeqId' = curr
                /\ k' = [kn EXCEPT !.subSeqId = sub]
                /\ prevSeqId' = fold[1]
                /\ prevSubSeqId' = fold[2]
                /\ prevOp' = fold[3]
                /\ out' = Emit(out, "real", i)
                /\ pc' = "track"
    /\ UNCHANGED <<nKernels, i, markers, marker_item, encapsulating_markers,
                   allMarkers, callids>>

\* variant of PopAll: nothing is popped
PopAll_Keep(pool, callid) == pool

\* parse.py 151-153: the pool without the ids of callid
PopAll(pool, callid) == SelectSeq(pool, LAMBDA m : m \notin callid)

\* variant of LoopNext: the loop stops one kernel early
LoopNext_OneShort(done, n) == IF done + 1 < n THEN "loop" ELSE "reconcile"

\* parse.py 80: after done kernels of n the loop goes on or ends
LoopNext(done, n) == IF done < n THEN "loop" ELSE "reconcile"

\* parse.py 150-154: the kernel's markers leave the pool; the iteration ends
\* (k, currSeqId of this iteration are dead once line 154 is passed)
TrackMarkers ==
    /\ pc = "track"
    /\ markers' = PopAll(markers, k.callid)
    /\ callids' = callids \cup k.callid
    /\ i' = i + 1
    /\ pc' = LoopNext(i + 1, nKernels)
    /\ k' = NewKernel
    /\ currSeqId' = NoSeqId
    /\ raw' = NoRaw
    /\ old' = NoFold
    /\ UNCHANGED <<nKernels, prevSeqId, prevSubSeqId, prevOp, marker_item,
                   encapsulating_markers, allMarkers, out>>

\* variant of FindFuncStack: the loop breaks at the first funcStack
RECURSIVE FindFuncStack_Break(_, _, _)
FindFuncStack_Break(enc, idx, marker_fn) ==
    IF idx > Len(enc) THEN marker_fn
    ELSE IF enc[idx] # NoStack
         THEN enc[idx]
         ELSE FindFuncStack_Break(enc, idx + 1, marker_fn)

\* parse.py 169-174: the funcStack taken from the encapsulating markers
RECURSIVE FindFuncStack(_, _, _)
FindFuncStack(enc, idx, marker_fn) ==
    IF idx > Len(enc) THEN marker_fn
    ELSE IF enc[idx] # NoStack
         THEN FindFuncStack(enc, idx + 1, enc[idx])
         ELSE FindFuncStack(enc, idx + 1, marker_fn)

\* Kernel.setRunTimeInfo
SetRunTimeInfo(kn, info) ==
    [kn EXCEPT !.rStartTime = info.rStart, !.rEndTime = info.rEnd,
               !.pid = info.pid, !.tid = info.tid, !.objId = info.objId]

\* Kernel.setKernelName
SetKernelName(kn, name) == [kn EXCEPT !.kernelName = name]

\* variant of FakeKernel: rStart and rEnd are exchanged
FakeKernel_Swapped(item, marker_fn, dir) ==
    LET k0 == [NewKernel EXCEPT !.kind = "synth", !.funcStack = marker_fn,
                                !.dir = dir]
        k1 == SetKernelName(k0, "cpu_kernel")
        info == [rStart |-> item.end, rEnd |-> item.start, pid |-> 0,
                 tid |-> item.globalTid, objId |-> item.globalTid]
        k2 == SetRunTimeInfo(k1, info)
    IN  [k2 EXCEPT !.kDuration = 0]

\* parse.py 162-185: the synthetic record of a marker (setOp derives op and
\* mod from the funcStack; the record keeps the funcStack itself)
FakeKernel(item, marker_fn, dir) ==
    LET k0 == [NewKernel EXCEPT !.kind = "synth", !.funcStack = marker_fn,
                                !.dir = dir]
        k1 == SetKernelName(k0, "cpu_kernel")
        info == [rStart |-> item.start, rEnd |-> item.end, pid |-> 0,
                 tid |-> item.globalTid, objId |-> item.globalTid]
        k2 == SetRunTimeInfo(k1, info)
    IN  [k2 EXCEPT !.kDuration = 0]

\* number of synthetic records printed: the position of "for marker in markers"
Reconciled == SelectSeq(out, LAMBDA r : r[1] = "synth")

\* parse.py 160-187: one leftover marker becomes a synthetic record
Reconcile ==
    /\ pc = "reconcile"
    /\ Len(Reconciled) < Len(markers)
    /\ LET marker == markers[Len(Reconciled) + 1]
       IN  \E gtid \in Tids, start \in 0..MaxTime, end \in 0..MaxTime,
              enc \in SeqsUpTo(FuncStacks \cup {NoStack}, MaxEnc),
              dir \in Dirs :
             /\ start <= end
             /\ marker_item' = [globalTid |-> gtid, start |-> start, end |-> end]
             /\ encapsulating_markers' = enc
             /\ k' = FakeKernel(marker_item', FindFuncStack(enc, 1, NoStack),
                                dir)
             /\ out' = Emit(out, "synth", marker)
    /\ UNCHANGED <<pc, nKernels, i, prevSeqId, prevSubSeqId, prevOp, markers,
                   currSeqId, raw, old, allMarkers, callids>>

\* parse.py 164, 172: eval of a payload that is no dictionary raises
ReconcileParseError ==
    /\ pc = "reconcile"
    /\ Len(Reconciled) < Len(markers)
    /\ pc' = "aborted"
    /\ UNCHANGED <<nKernels, i, prevSeqId, prevSubSeqId, prevOp, markers, k,
                   currSeqId, marker_item, encapsulating_markers, raw, old,
                   allMarkers, callids, out>>

\* parse.py 191: every marker visited, db.close()
Finish ==
    /\ pc = "reconcile"
    /\ Len(Reconciled) = Len(markers)
    /\ pc' = "done"
    /\ UNCHANGED <<nKernels, i, prevSeqId, prevSubSeqId, prevOp, markers, k,
                   currSeqId, marker_item, encapsulating_markers, raw, old,
                   allMarkers, callids, out>>

Next ==
    \/ ExitEmpty
    \/ Start
    \/ ProcessKernel
    \/ TrackMarkers
    \/ Reconcile
    \/ ReconcileParseError
    \/ Finish

Spec == Init /\ [][Next]_vars

TypeOK ==
    /\ pc \in {"start", "exit0", "loop", "track", "reconcile", "done", "aborted"}
    /\ i \in 0..nKernels
    /\ prevSeqId \in -1..MaxId

\* ----------------------------------------------------------- properties
\* a real kernel's record has just been printed; raw, old, currSeqId are its
RealPrinted == pc = "track"
\* the kernel's seqId after zero pruning, before the partition
Pruned == ZeroPrune(raw.seqId)
\* a real kernel with a non-empty seqId has just been printed
HasSeqId == RealPrinted /\ Len(Pruned) > 0
\* the elements of the pruned seqId that exceed the previous canonical id
Exceeding == {x \in ToSet(Pruned) : x > old.prevSeqId}
Min(S) == CHOOSE x \in S : \A y \in S : x <= y
StrictlyAscending(s) == \A n \in 1..(Len(s) - 1) : s[n] < s[n + 1]

\* C1: a forward kernel with an element of seqId above prevSeqId takes the
\* least such element as canonical id, in whatever order seqId lists them.
C1_ForwardMin ==
    (HasSeqId /\ k.dir = "fprop" /\ Exceeding # {})
        => currSeqId = Min(Exceeding)

\* C2: a forward kernel none of whose seqId elements exceeds prevSeqId keeps
\* prevSeqId as canonical id.
C2_ForwardStall ==
    (HasSeqId /\ k.dir = "fprop" /\ Exceeding = {})
        => currSeqId = old.prevSeqId

\* prevSeqId = 2, seqId = [1, 2]: canonical 2, altSeqId [1]
C2_Witness ==
    /\ HasSeqId /\ k.dir = "fprop"
    /\ old.prevSeqId = 2 /\ Pruned = <<1, 2>> /\ raw.altSeqId = <<>>
    /\ currSeqId = 2 /\ k.altSeqId = <<1>>

\* C3: a backward kernel takes the first element of seqId in stack order as
\* canonical id, whatever prevSeqId and the numeric order are.
C3_BackwardHead ==
    (HasSeqId /\ k.dir = "bprop") => currSeqId = Pruned[1]

\* seqId = [2, 1] after a kernel that left prevSeqId = 2: canonical 2,
\* altSeqId [1]
C3_Witness ==
    /\ HasSeqId /\ k.dir = "bprop"
    /\ old.prevSeqId = 2 /\ Pruned = <<2, 1>> /\ raw.altSeqId = <<>>
    /\ currSeqId = 2 /\ k.altSeqId = <<1>>

\* C4: the canonical id of a kernel with a non-empty seqId is not in the
\* record's altSeqId.
C4_CanonicalNotInAlt ==
    HasSeqId => ~In(currSeqId, k.altSeqId)

\* C5: altSeqId of every printed record, real or synthetic, is strictly
\* ascending (so without duplicates).
C5_AltAscending ==
    (k.kind \in {"real", "synth"}) => StrictlyAscending(k.altSeqId)

\* C6: the record of a kernel with a non-empty seqId has seqId = [canonical]
\* and every other element of the pre-partition seqId in altSeqId.
C6_PartitionExact ==
    HasSeqId =>
        /\ k.seqId = <<currSeqId>>
        /\ \A x \in ToSet(Pruned) : x # currSeqId => In(x, k.altSeqId)

\* C7: when the seqId before pruning holds both 0 and a non-zero value, the
\* record holds no 0 in seqId or altSeqId beside a non-zero canonical id
\* (stated for marker stacks whose own altSeqId holds no 0, so that a 0 found
\* in the record comes from seqId).
C7_NoZeroBesideNonZero ==
    (RealPrinted /\ In(0, raw.seqId) /\ (\E x \in ToSet(raw.seqId) : x # 0)
       /\ ~In(0, raw.altSeqId))
        => ~(currSeqId # 0 /\ (In(0, k.seqId) \/ In(0, k.altSeqId)))

\* C8: the subSeqId of a kernel with a non-empty seqId is prevSubSeqId + 1
\* exactly when (canonical = prevSeqId and op = prevOp) or (op[0] is "forward"
\* and op = prevOp and mod[0] is a recurrent cell), and 0 otherwise.
C8_SubSeqId ==
    HasSeqId =>
        k.subSeqId =
            IF \/ (currSeqId = old.prevSeqId /\ k.op = old.prevOp)
               \/ (k.op[1] = "forward" /\ k.op = old.prevOp
                     /\ k.mod[1] \in {"LSTMCell", "GRUCell", "RNNCell"})
            THEN old.prevSubSeqId + 1
            ELSE 0

\* the third kernel follows one whose subSeqId was raised to 1 and, having
\* another op, is back at 0
C8_Witness ==
    /\ HasSeqId /\ i = 2
    /\ old.prevSubSeqId = 1 /\ currSeqId = old.prevSeqId
    /\ k.op # old.prevOp /\ k.subSeqId = 0

\* marker ids some kernel consumed, and marker ids reconciled
Consumed == callids \cap allMarkers
ReconciledIds == {Reconciled[n][2] : n \in 1..Len(Reconciled)}

\* C9: no consumed marker is ever reconciled and none is reconciled twice;
\* at the end of a run that did not abort, consumed and reconciled markers
\* together are all the markers.
C9_ConsumptionDisjoint ==
    /\ Consumed \cap ReconciledIds = {}
    /\ Cardinality(ReconciledIds) = Len(Reconciled)
    /\ pc = "done" => Consumed \cup ReconciledIds = allMarkers

\* a finished run in which marker 1 was consumed and marker 2 reconciled
C9_Witness ==
    pc = "done" /\ Consumed = {1} /\ ReconciledIds = {2}

\* C10: a synthetic record has kDuration 0, kernelName 'cpu_kernel', pid 0,
\* tid = objId = the marker's globalTid, and the marker's start and end.
C10_SyntheticShape ==
    k.kind = "synth" =>
        /\ k.kDuration = 0
        /\ k.kernelName = "cpu_kernel"
        /\ k.pid = 0
        /\ k.tid = marker_item.globalTid
        /\ k.objId = marker_item.globalTid
        /\ k.rStartTime = marker_item.start
        /\ k.rEndTime = marker_item.end

\* the synthetic record of a marker with start 0, end 1 on thread 8
C10_Witness ==
    /\ k.kind = "synth"
    /\ marker_item = [globalTid |-> 8, start |-> 0, end |-> 1]
    /\ k.rStartTime = 0 /\ k.rEndTime = 1 /\ k.tid = 8

\* the fold state
Fold == <<prevSeqId, prevSubSeqId, prevOp>>
\* a record, real or synthetic, has just been printed and k is that record
Printed == k.kind \in {"real", "synth"}

\* C11: a kernel with a non-empty seqId whose dir is neither fprop nor bprop
\* stops the run: its record is not printed, the fold state and the marker
\* pool stay as they were, and nothing is printed or popped afterwards.
C11_AbortOnBadDir ==
    [][/\ (pc = "loop" /\ Len(ZeroPrune(raw'.seqId)) > 0
             /\ k'.dir \notin {"fprop", "bprop"})
          => /\ pc' = "aborted"
             /\ k'.kind = "built"
             /\ out' = out
             /\ Fold' = Fold
             /\ markers' = markers
       /\ pc = "aborted" => (out' = out /\ markers' = markers /\ Fold' = Fold)
      ]_vars

\* the second kernel, with seqId [1] and dir none, stopped the run after the
\* first had set prevSeqId = 2; one record was printed, no marker popped
C11_Witness ==
    /\ pc = "aborted" /\ k.kind = "built"
    /\ k.dir = "none" /\ k.seqId = <<1>>
    /\ i = 1 /\ out = <<(<<"real", 0>>)>>
    /\ prevSeqId = 2 /\ Len(markers) = 1

\* C12: with no kernel launch the run exits cleanly and prints no record.
C12_EmptyTrace ==
    nKernels = 0 =>
        /\ pc \in {"start", "exit0"}
        /\ out = <<>>
        /\ k = NewKernel

\* the run over a trace without kernels has exited
C12_Witness ==
    pc = "exit0" /\ nKernels = 0 /\ out = <<>>

\* C13: subSeqId of every printed record is >= 0, and the first kernel of a
\* run with a non-empty seqId has subSeqId 0.
C13_SubSeqIdNonNegative ==
    /\ Printed => k.subSeqId >= 0
    /\ (HasSeqId /\ old = NoFold) => k.subSeqId = 0

\* the second kernel is the first with a non-empty seqId, and it is a forward
\* recurrent-cell kernel
C13_Witness ==
    /\ HasSeqId /\ i = 1 /\ old = NoFold
    /\ k.op = <<"forward">> /\ k.mod = <<"LSTMCell">>
    /\ k.subSeqId = 0

\* C14: a printed record with a non-empty seqId has dir fprop or bprop; dir
\* is none only on records whose seqId is empty.
C14_DirNoneOnlyWithoutSeqId ==
    Printed =>
        /\ Len(k.seqId) > 0 => k.dir \in {"fprop", "bprop"}
        /\ k.dir = "none" => Len(k.seqId) = 0
        /\ (RealPrinted /\ k.dir = "none") => Len(Pruned) = 0

\* a real kernel without seqId was printed with dir none
C14_Witness ==
    RealPrinted /\ k.dir = "none" /\ k.seqId = <<>> /\ raw.seqId = <<>>

\* C15 as claimed: after every kernel, also one with an empty seqId, the
\* fold state is that kernel's canonical id, subSeqId and op.
C15_FoldAfterEveryKernel ==
    RealPrinted =>
        /\ prevSubSeqId = k.subSeqId
        /\ prevOp = k.op
        /\ Len(Pruned) > 0 => prevSeqId = currSeqId

\* C15 amended: after a kernel with a non-empty seqId the fold state is that
\* kernel's canonical id, subSeqId and op; a kernel with an empty seqId
\* leaves the fold state as it was.
C15_FoldAfterSeqIdKernel ==
    RealPrinted =>
        IF Len(Pruned) > 0
        THEN Fold = <<currSeqId, k.subSeqId, k.op>>
        ELSE Fold = <<old.prevSeqId, old.prevSubSeqId, old.prevOp>>

\* the third kernel has subSeqId 1 after an equal second one, and the fold
\* state holds its values
C15_Witness ==
    /\ HasSeqId /\ i = 2
    /\ k.subSeqId = 1 /\ old.prevSubSeqId = 0
    /\ Fold = <<currSeqId, 1, k.op>>

RealEntries == SelectSeq(out, LAMBDA r : r[1] = "real")

\* C16: real records are printed in the adapter's order and before every
\* synthetic record; the pool loses a kernel's markers only once that
\* kernel's record is printed.
C16_TwoPasses ==
    /\ [](/\ \A n \in 1..Len(RealEntries) : out[n] = <<"real", n - 1>>
          /\ \A n \in (Len(RealEntries) + 1)..Len(out) : out[n][1] = "synth")
    /\ [][(pc # "start" /\ markers' # markers)
            => (out' = out /\ Len(out) = i + 1 /\ out[i + 1] = <<"real", i>>)
         ]_vars

\* two real records, then a synthetic one
C16_Witness ==
    /\ Len(out) = 3
    /\ out[1] = <<"real", 0>> /\ out[2] = <<"real", 1>>
    /\ out[3][1] = "synth"

\* main has ended
Terminated == pc \in {"exit0", "done", "aborted"}
\* an upper bound of the steps main still takes
Rank ==
    (IF pc = "start" THEN 1 ELSE 0)
    + (IF pc \in {"start", "loop", "track"}
       THEN 2 * (nKernels - i) - (IF pc = "track" THEN 1 ELSE 0)
            + NumMarkers + 1
       ELSE IF pc = "reconcile"
            THEN Len(markers) - Len(Reconciled) + 1
            ELSE 0)

\* C17: a run with at least one kernel ends (it can always go on until it
\* has ended, and every step lowers a bound on the steps left); when it ends
\* without a fatal error it has printed one record per kernel launch, one
\* synthetic record per marker no kernel consumed, and nothing else.
C17_TerminatesWithAllRecords ==
    /\ [](Terminated \/ ENABLED Next)
    /\ [](Rank >= 0)
    /\ [][Rank' < Rank]_vars
    /\ [](pc = "done" =>
            /\ Len(RealEntries) = nKernels
            /\ ReconciledIds = allMarkers \ Consumed
            /\ Len(out) = nKernels + Cardinality(allMarkers \ Consumed))

\* a run of three kernels ended with one marker consumed, one reconciled
C17_Witness ==
    /\ pc = "done" /\ nKernels = 3
    /\ Len(out) = 4 /\ Cardinality(Consumed) = 1

\* the funcStack of the first, and of the last, marker of enc that has one
FirstStack(enc) ==
    IF \A n \in 1..Len(enc) : enc[n] = NoStack THEN NoStack
    ELSE enc[CHOOSE n \in 1..Len(enc) :
               enc[n] # NoStack /\ \A m \in 1..(n - 1) : enc[m] = NoStack]
LastStack(enc) ==
    IF \A n \in 1..Len(enc) : enc[n] = NoStack THEN NoStack
    ELSE enc[CHOOSE n \in 1..Len(enc) :
               enc[n] # NoStack /\ \A m \in (n + 1)..Len(enc) : enc[m] = NoStack]

\* C18 as claimed: the synthetic record uses the funcStack of the first
\* encapsulating marker, in the adapter's order, that has one.
C18_FirstFuncStack ==
    k.kind = "synth" => k.funcStack = FirstStack(encapsulating_markers)

\* C18 amended: the synthetic record uses the funcStack of the last
\* encapsulating marker, in the adapter's order, that has one, and none when
\* no encapsulating marker has one.
C18_LastFuncStack ==
    k.kind = "synth" => k.funcStack = LastStack(encapsulating_markers)

\* two encapsulating markers with different funcStacks: the second is used
C18_Witness ==
    /\ k.kind = "synth"
    /\ encapsulating_markers = <<"fA", "fB">>
    /\ k.funcStack = "fB"

\* C19: a forward kernel with a non-empty seqId never lowers prevSeqId; only
\* a backward kernel does.
C19_ForwardNeverLowers ==
    /\ (HasSeqId /\ k.dir = "fprop") => prevSeqId >= old.prevSeqId
    /\ (RealPrinted /\ prevSeqId < old.prevSeqId) => k.dir = "bprop"

\* a forward kernel whose only id, 1, is below prevSeqId = 2 leaves it at 2
C19_Witness ==
    /\ HasSeqId /\ k.dir = "fprop"
    /\ old.prevSeqId = 2 /\ Pruned = <<1>> /\ prevSeqId = 2

\* C20: every id of the zero-pruned seqId is in the record's seqId or
\* altSeqId, and every id of the record's seqId or altSeqId was in the
\* zero-pruned seqId or in the altSeqId the marker stack supplied.
C20_PartitionKeepsIds ==
    HasSeqId =>
        /\ ToSet(Pruned) \subseteq (ToSet(k.seqId) \cup ToSet(k.altSeqId))
        /\ (ToSet(k.seqId) \cup ToSet(k.altSeqId))
               \subseteq (ToSet(Pruned) \cup ToSet(raw.altSeqId))

\* canonical id 2 comes from prevSeqId: one 1 stays in seqId, the other
\* moves to altSeqId, and the supplied 2 is dropped from altSeqId
C20_Witness ==
    /\ HasSeqId /\ k.dir = "fprop"
    /\ old.prevSeqId = 2 /\ currSeqId = 2
    /\ Pruned = <<1, 1>> /\ raw.altSeqId = <<0, 2>>
    /\ k.seqId = <<1>> /\ k.altSeqId = <<0, 1>>
====
